---- MODULE Spec2Model ----
(***************************************************************************)
(* A model of chipper's build orchestration: js/grunt/buildRunnable.js     *)
(* (the staged pipeline that builds one runnable for one brand) and        *)
(* js/grunt/minify.js (the Code Compressor's option handling).             *)
(*                                                                         *)
(* One behaviour is one call of buildRunnable.  The request is chosen in   *)
(* Init; what the build reads from its environment (files, collaborators'  *)
(* results, collaborators' failures) is chosen by the step that reads it.  *)
(* Code blobs are abstract values: a bundle, or the result of minify on a  *)
(* blob under an effective compressor configuration.                       *)
(***************************************************************************)
EXTENDS Integers, Sequences, FiniteSets, TLC

(***************************************************************************)
(* Bounds of the model.                                                    *)
(***************************************************************************)
\* longest locale selector, counted in tokens (a locale code or a comma)
MaxSelectorLen == 3
\* number of preload files getPreloads returns
NumPreloads == 2
\* the longest compressor output considered, in characters
MaxCodeLen == 3

(***************************************************************************)
(* JavaScript values of the parameters that the code type-checks.          *)
(***************************************************************************)
JSString(s) == [type |-> "string", value |-> s]
JSBoolean(b) == [type |-> "boolean", value |-> IF b THEN "true" ELSE "false"]
JSNumber(n) == [type |-> "number", value |-> n]
JSUndefined == [type |-> "undefined", value |-> "undefined"]

\* typeof x
TypeOf(x) == x.type

\* the truthiness JavaScript's `?:`, `||` and assert( x ) apply
Truthy(x) ==
  CASE x.type = "boolean" -> x.value = "true"
    [] x.type = "string" -> x.value # ""
    [] x.type = "number" -> x.value # "0"
    [] OTHER -> FALSE

(***************************************************************************)
(* ChipperConstants (js/common/ChipperConstants.js).                       *)
(***************************************************************************)
BRANDS == <<"phet", "phet-io", "adapted-from-phet">>
FALLBACK_LOCALE == "en"
A11Y_VIEW_HTML_SUFFIX == "_a11y_view.html"

\* _.includes( array, x )
Includes(array, x) == \E i \in 1..Len(array) : array[i] = x

(***************************************************************************)
(* Locale selectors.  A selector is the string localesOption, held as its  *)
(* sequence of tokens: "*", a locale code, or a comma.  Two codes are      *)
(* never adjacent, so the pieces between commas are codes or empty.        *)
(***************************************************************************)
LocaleCodes == {"en", "es", "all"}
Comma == ","
Star == <<"*">>

SelectorTokens == LocaleCodes \cup {Comma}

WellFormed(s) ==
  \A i \in 1..(Len(s) - 1) : s[i] = Comma \/ s[i + 1] = Comma

LocaleSelectors ==
  {Star} \cup
  UNION {{s \in [1..n -> SelectorTokens] : WellFormed(s)} : n \in 0..MaxSelectorLen}

\* localesOption.split( ',' ): the pieces between the commas, an empty piece
\* being the empty string; the empty selector splits into one empty piece.
RECURSIVE Split(_)
Split(s) ==
  IF s = <<>> THEN <<"">>
  ELSE IF Head(s) = Comma THEN <<"">> \o Split(Tail(s))
  ELSE IF Len(s) = 1 THEN <<Head(s)>>
  ELSE \* a code is followed by a comma (WellFormed)
       <<Head(s)>> \o Split(Tail(Tail(s)))

(***************************************************************************)
(* Code blobs.                                                             *)
(***************************************************************************)
\* a local that has not been assigned yet
Unset == [kind |-> "unset"]

\* result.error when uglify.minify reports no error
NoError == JSUndefined

\* the errors uglify.minify can report
UglifyErrors ==
  {[name |-> "SyntaxError", message |-> "Unexpected token"],
   [name |-> "DefaultsError", message |-> "not a supported option"]}

\* String( e ) of an error object: its name, a colon, its message
ErrorText(e) == <<e.name, ": ", e.message>>

\* new Error( e ): an Error whose message is the text of e
NewError(e) == [kind |-> "Error", message |-> ErrorText(e)]

\* what a call that throws err yields instead of a value
Thrown(err) == [kind |-> "thrown", error |-> err]

\* transpile( jsInput ): babel's output for the fixed browser matrix
transpile(jsInput) == [kind |-> "transpiled", src |-> jsInput]

(***************************************************************************)
(* minify.js.  Options are a function from the option names that the       *)
(* caller passed to their values; an option not passed takes its default.  *)
(***************************************************************************)
Option(options, name, default) ==
  IF name \in DOMAIN options THEN options[name] ELSE default

\* config.compress.global_defs: the globals bound to false
GlobalDefs(options) ==
  LET stripped ==
        (IF Option(options, "stripAssertions", TRUE)
           THEN {"assert", "assertSlow"} ELSE {})
        \cup
        (IF Option(options, "stripLogging", TRUE)
           THEN {"sceneryLog", "sceneryAccessibilityLog"} ELSE {})
  IN [g \in stripped |-> FALSE]

\* the configuration handed to uglify.minify
MinifyConfig(options) ==
  [mangle |-> Option(options, "mangle", TRUE),
   safari10 |-> Option(options, "mangle", TRUE),
   dead_code |-> TRUE,
   global_defs |-> GlobalDefs(options),
   inline_script |-> TRUE,
   beautify |-> ~Option(options, "mangle", TRUE)]

\* the code handed to uglify.minify: transpiled first when asked
MinifyInput(js, options) ==
  IF Option(options, "babelTranspile", FALSE) THEN transpile(js) ELSE js

\* faulty variant: a compressor error falls back to the uncompressed input
minify_SilentFallback(js, options, uglifyError) ==
  IF uglifyError # NoError THEN js
  ELSE [kind |-> "minified",
        src |-> MinifyInput(js, options),
        config |-> MinifyConfig(options)]

\* faulty variant: the error thrown does not carry what the compressor
\* reported
minify_ErrorDetailDropped(js, options, uglifyError) ==
  IF uglifyError # NoError
    THEN Thrown([kind |-> "Error", message |-> <<"minify failed">>])
  ELSE [kind |-> "minified",
        src |-> MinifyInput(js, options),
        config |-> MinifyConfig(options)]

\* minify( js, options ), given the error uglify.minify reports (NoError when
\* it reports none): the error is thrown on as new Error( result.error ).
\* The returned code is the compressor's output for that input under that
\* configuration (the textual post-fix acts on its characters, which this
\* level of the model does not hold).
minify(js, options, uglifyError) ==
  IF uglifyError # NoError THEN Thrown(NewError(uglifyError))
  ELSE [kind |-> "minified",
        src |-> MinifyInput(js, options),
        config |-> MinifyConfig(options)]

(***************************************************************************)
(* minify.js at the level of characters: the code uglify.minify returns   *)
(* is a sequence of characters, and the value minify returns is that      *)
(* sequence after the replacement of line 78.                              *)
(***************************************************************************)
\* the vertical tab, U+000B
VT == "U+000B"

\* the four characters of the escape sequence written in its place
EscapedVT == <<"\\", "x", "0", "B">>

\* the characters compressor output is made of here
CodeChars == {"a", VT}

\* the compressor outputs of at most MaxCodeLen characters
CodeTexts == UNION {[1..n -> CodeChars] : n \in 0..MaxCodeLen}

\* String.prototype.replace with a string pattern: the first occurrence of
\* the pattern is replaced, the rest of the text is left as it is
RECURSIVE ReplaceFirst(_, _, _)
ReplaceFirst(text, pattern, replacement) ==
  IF text = <<>> THEN <<>>
  ELSE IF Head(text) = pattern THEN replacement \o Tail(text)
  ELSE <<Head(text)>> \o ReplaceFirst(Tail(text), pattern, replacement)

\* the option objects buildRunnable calls minify with
MinifyOptionSets ==
  {[mangle |-> m, babelTranspile |-> TRUE] : m \in BOOLEAN}
  \cup {[mangle |-> TRUE, babelTranspile |-> TRUE,
         stripAssertions |-> FALSE, stripLogging |-> FALSE]}
  \cup {[mangle |-> m] : m \in BOOLEAN}

\* what uglify.minify can return: an error, or code
UglifyResults ==
  {[error |-> e, code |-> <<>>] : e \in UglifyErrors}
  \cup {[error |-> NoError, code |-> t] : t \in CodeTexts}

(***************************************************************************)
(* The build's state.                                                      *)
(***************************************************************************)
VARIABLES
  req,                \* the parameters of the call
  pc,                 \* the statement the build is at
  error,              \* what aborted the build, "none" while it has not
  thrown,             \* the error the build threw to its caller
  compressorError,    \* the error uglify.minify reported to the build
  packageObject,      \* ../{repo}/package.json
  requireJS,          \* the module bundle
  productionJS,
  debugJS,
  productionPreloads,
  debugPreloads,
  allLocales,
  locales,
  dependencies,
  stringMap,
  mipmapsJavaScript,
  englishTitle,
  htmlHeader,
  phetioDir,          \* whether ../phet-io exists, once looked up
  screenshot,         \* whether the screenshot asset exists, once looked up
  thumbnailIndex,     \* the position of the thumbnail loop
  dirs,               \* the directories created, in order
  files,              \* the files written, in order: [path, content]
  xhtml,              \* the calls of packageXHTML, in order: [dir, options]
  calls,              \* the collaborators invoked, in order: [fn, arg, at]
  minifyOptions,      \* the options of a call of minify followed by character
  uglifyConfig,       \* the configuration that call hands to uglify.minify
  result,             \* what uglify.minify returned to it
  returned            \* what the call returned, or that it threw

control == <<pc, error, thrown, compressorError>>
code == <<requireJS, productionJS, debugJS, productionPreloads, debugPreloads>>
shared == <<packageObject, allLocales, locales, dependencies, stringMap,
            mipmapsJavaScript, englishTitle, htmlHeader>>
thumbs == <<screenshot, thumbnailIndex>>
lookups == <<phetioDir, thumbs>>
output == <<dirs, files, xhtml>>
textual == <<minifyOptions, uglifyConfig, result, returned>>
vars == <<req, control, code, shared, lookups, output, calls, textual>>

(***************************************************************************)
(* Requests.                                                               *)
(***************************************************************************)
RepoValues == {JSString("sim"), JSString(""), JSNumber("7")}
FlagValues == {JSBoolean(TRUE), JSBoolean(FALSE), JSUndefined}
BrandValues == {"phet", "phet-io", "adapted-from-phet", "unknown"}

Requests ==
  [repo : RepoValues,
   uglify : FlagValues,
   mangle : FlagValues,
   instrument : BOOLEAN,
   allHTML : BOOLEAN,
   brand : BrandValues,
   localesOption : LocaleSelectors]

\* nothing of a build has run yet
Fresh ==
  /\ pc = "start"
  /\ error = "none"
  /\ thrown = Unset
  /\ compressorError = NoError
  /\ packageObject = Unset
  /\ requireJS = Unset
  /\ productionJS = Unset
  /\ debugJS = Unset
  /\ productionPreloads = <<>>
  /\ debugPreloads = <<>>
  /\ allLocales = <<>>
  /\ locales = <<>>
  /\ dependencies = Unset
  /\ stringMap = Unset
  /\ mipmapsJavaScript = Unset
  /\ englishTitle = JSUndefined
  /\ htmlHeader = Unset
  /\ phetioDir = "unknown"
  /\ screenshot = "unknown"
  /\ thumbnailIndex = 0
  /\ dirs = <<>>
  /\ files = <<>>
  /\ xhtml = <<>>
  /\ calls = <<>>

\* no call of minify is followed by character
NoTextualCall ==
  /\ minifyOptions = Unset
  /\ uglifyConfig = Unset
  /\ result = Unset
  /\ returned = Unset

Init ==
  /\ req \in Requests
  /\ Fresh
  /\ NoTextualCall

\* the record of invoking collaborator fn now
Invocation(fn, arg) == [fn |-> fn, arg |-> arg, at |-> Len(files)]

\* the error a failed assert or a rejected promise of step e raises (its text
\* is the collaborator's)
Failure(e) == [kind |-> "Error", from |-> e]

\* the build aborts with error e: nothing catches what step e raised
Abort(e) ==
  /\ pc' = "failed"
  /\ error' = e
  /\ thrown' = Failure(e)
  /\ UNCHANGED compressorError

\* the build aborts because minify threw: nothing catches its error
AbortMinify(value, reported) ==
  /\ pc' = "failed"
  /\ error' = "minify"
  /\ thrown' = value.error
  /\ compressorError' = reported

Goto(next) == pc' = next /\ UNCHANGED <<error, thrown, compressorError>>

(***************************************************************************)
(* buildRunnable, lines 52-61: the parameter checks.                       *)
(***************************************************************************)
\* faulty variant: the type of repo is not checked
ParametersValid_RepoUnchecked(r) ==
  /\ TypeOf(r.uglify) = "boolean"
  /\ TypeOf(r.mangle) = "boolean"
  /\ Includes(BRANDS, r.brand)

\* the asserts up to the brand check
ParametersValid(r) ==
  /\ TypeOf(r.repo) = "string"
  /\ TypeOf(r.uglify) = "boolean"
  /\ TypeOf(r.mangle) = "boolean"
  /\ Includes(BRANDS, r.brand)

\* faulty variant: the sibling directory is not required
PreconditionsHold_SiblingUnchecked(r, phetioExists) ==
  ParametersValid(r)

\* all the asserts hold, given what grunt.file.exists( '../phet-io' ) answers
PreconditionsHold(r, phetioExists) ==
  /\ ParametersValid(r)
  /\ (r.brand = "phet-io" => phetioExists)

CheckPreconditions ==
  /\ pc = "start"
  /\ \E phetioExists \in BOOLEAN :
       \* the directory is looked up only when the brand is phet-io
       /\ phetioDir' = IF ParametersValid(req) /\ req.brand = "phet-io"
                         THEN (IF phetioExists THEN "present" ELSE "absent")
                         ELSE "unknown"
       /\ IF PreconditionsHold(req, phetioExists)
            THEN Goto("readPackage")
            ELSE Abort("precondition")
  /\ UNCHANGED <<textual, req, code, shared, thumbs, output, calls>>

(***************************************************************************)
(* Lines 63-69: package.json, the encoder, the timestamp.                  *)
(***************************************************************************)
PackageObjects ==
  {[version |-> "1.0.0", requirejsNamespace |-> "SIM", accessible |-> a] :
     a \in BOOLEAN}

timestamp == "build time"

ReadPackage ==
  /\ pc = "readPackage"
  /\ \/ \E p \in PackageObjects : packageObject' = p /\ Goto("requireBuild")
     \/ \* grunt.file.readJSON throws: no such file, or not JSON
        UNCHANGED packageObject /\ Abort("readJSON")
  /\ UNCHANGED <<textual, req, code, allLocales, locales, dependencies, stringMap,
                 mipmapsJavaScript, englishTitle, htmlHeader, lookups, output,
                 calls>>

(***************************************************************************)
(* Lines 72-76: the module bundle.                                         *)
(***************************************************************************)
\* what requireBuild resolves to for this request
Bundle(r) ==
  [kind |-> "bundle",
   repo |-> r.repo.value,
   insertRequire |-> <<r.repo.value, "-main">>,
   instrument |-> r.instrument,
   brand |-> r.brand]

\* requireBuild( repo, config, options ) is called; the build is suspended
\* at the await until the promise settles
RequireBuild ==
  /\ pc = "requireBuild"
  /\ calls' = Append(calls, Invocation("requireBuild", req.repo.value))
  /\ Goto("requireBuildPending")
  /\ UNCHANGED <<textual, req, code, shared, lookups, output>>

\* the promise settles: the bundle is assigned, or the rejection is thrown
RequireBuildSettled ==
  /\ pc = "requireBuildPending"
  /\ \/ requireJS' = Bundle(req) /\ Goto("minify")
     \/ UNCHANGED requireJS /\ Abort("requireBuild")
  /\ UNCHANGED <<textual, req, productionJS, debugJS, productionPreloads, debugPreloads,
                 shared, lookups, output, calls>>

(***************************************************************************)
(* Lines 78-90: the two code artifacts, then the unused-media and          *)
(* unused-strings reports.                                                 *)
(***************************************************************************)
\* faulty variant: the bundle is compressed whatever the uglify flag
ProductionJS_AlwaysCompressed(uglify, mangle, bundle, uglifyError) ==
  minify(bundle, [mangle |-> Truthy(mangle), babelTranspile |-> TRUE],
         uglifyError)

ProductionJS(uglify, mangle, bundle, uglifyError) ==
  IF Truthy(uglify)
    THEN minify(bundle, [mangle |-> Truthy(mangle), babelTranspile |-> TRUE],
                uglifyError)
    ELSE bundle

\* faulty variant: the debug code is compressed with the default stripping
DebugJS_DefaultStripping(brand, bundle, uglifyError) ==
  IF brand = "phet-io"
    THEN minify(bundle, [mangle |-> TRUE, babelTranspile |-> TRUE], uglifyError)
    ELSE bundle

DebugJS(brand, bundle, uglifyError) ==
  IF brand = "phet-io"
    THEN minify(bundle,
                [mangle |-> TRUE, babelTranspile |-> TRUE,
                 stripAssertions |-> FALSE, stripLogging |-> FALSE],
                uglifyError)
    ELSE bundle

\* the calls of minify a derivation made: one per blob that went through it
MinifyCalls(what, n) == [i \in 1..n |-> Invocation("minify", what)]

DeriveCode ==
  /\ pc = "minify"
  /\ \E productionError, debugError \in {NoError} \cup UglifyErrors :
       LET production ==
             ProductionJS(req.uglify, req.mangle, requireJS, productionError)
           debug == DebugJS(req.brand, requireJS, debugError)
           productionCalls ==
             MinifyCalls("requireJS", IF Truthy(req.uglify) THEN 1 ELSE 0)
           debugCalls ==
             MinifyCalls("requireJS", IF req.brand = "phet-io" THEN 1 ELSE 0)
       IN IF production.kind = "thrown"
            THEN /\ calls' = calls \o productionCalls
                 /\ UNCHANGED <<productionJS, debugJS>>
                 /\ AbortMinify(production, productionError)
          ELSE IF debug.kind = "thrown"
            THEN /\ calls' = calls \o productionCalls \o debugCalls
                 /\ productionJS' = production
                 /\ UNCHANGED debugJS
                 /\ AbortMinify(debug, debugError)
          ELSE /\ calls' = calls \o productionCalls \o debugCalls \o
                     <<Invocation("reportUnusedMedia",
                                  packageObject.requirejsNamespace),
                       Invocation("reportUnusedStrings", req.repo.value)>>
               /\ productionJS' = production
               /\ debugJS' = debug
               /\ Goto("preloads")
  /\ UNCHANGED <<textual, req, requireJS, productionPreloads, debugPreloads, shared,
                 lookups, output>>

(***************************************************************************)
(* Lines 93-95: the preload fragments.                                     *)
(***************************************************************************)
\* getPreloads( repo, brand ).map( filename => grunt.file.read( filename ) )
rawPreloads == [i \in 1..NumPreloads |-> [kind |-> "file", index |-> i]]

ProductionPreload(uglify, mangle, js, uglifyError) ==
  IF Truthy(uglify)
    THEN minify(js, [mangle |-> Truthy(mangle)], uglifyError)
    ELSE js

DebugPreload(brand, js, uglifyError) ==
  IF brand = "phet-io"
    THEN minify(js, [mangle |-> TRUE], uglifyError)
    ELSE js

DerivePreloads ==
  /\ pc = "preloads"
  /\ \E productionFailure, debugFailure \in 0..NumPreloads,
        productionError, debugError \in UglifyErrors :
       \* the preload whose compression fails, 0 when none does, and the
       \* error the compressor reports on it
       LET production ==
             [i \in 1..NumPreloads |->
                ProductionPreload(req.uglify, req.mangle, rawPreloads[i],
                                  IF i = productionFailure
                                    THEN productionError ELSE NoError)]
           debug ==
             [i \in 1..NumPreloads |->
                DebugPreload(req.brand, rawPreloads[i],
                             IF i = debugFailure THEN debugError ELSE NoError)]
           productionThrows ==
             \E i \in 1..NumPreloads : production[i].kind = "thrown"
           debugThrows == \E i \in 1..NumPreloads : debug[i].kind = "thrown"
           productionCalls ==
             MinifyCalls("preload",
                         IF ~Truthy(req.uglify) THEN 0
                         ELSE IF productionThrows THEN productionFailure
                         ELSE NumPreloads)
           debugCalls ==
             MinifyCalls("preload",
                         IF req.brand # "phet-io" THEN 0
                         ELSE IF debugThrows THEN debugFailure
                         ELSE NumPreloads)
       IN IF productionThrows
            THEN /\ calls' = calls \o productionCalls
                 /\ UNCHANGED <<productionPreloads, debugPreloads>>
                 /\ AbortMinify(production[productionFailure], productionError)
          ELSE IF debugThrows
            THEN /\ calls' = calls \o productionCalls \o debugCalls
                 /\ productionPreloads' = production
                 /\ UNCHANGED debugPreloads
                 /\ AbortMinify(debug[debugFailure], debugError)
          ELSE /\ calls' = calls \o productionCalls \o debugCalls
               /\ productionPreloads' = production
               /\ debugPreloads' = debug
               /\ Goto("locales")
  /\ UNCHANGED <<textual, req, requireJS, productionJS, debugJS, shared, lookups,
                 output>>

(***************************************************************************)
(* Lines 97-99: the locales.                                               *)
(***************************************************************************)
\* what getLocalesFromRepository( repo ) can answer
RepositoryLocales == {<<>>, <<"es">>}

AllLocales(repositoryLocales) == <<FALLBACK_LOCALE>> \o repositoryLocales

Locales(localesOption, all) ==
  IF localesOption = Star THEN all ELSE Split(localesOption)

ResolveLocales ==
  /\ pc = "locales"
  /\ \E repositoryLocales \in RepositoryLocales :
       /\ allLocales' = AllLocales(repositoryLocales)
       /\ locales' = Locales(req.localesOption, AllLocales(repositoryLocales))
  /\ Goto("dependencies")
  /\ UNCHANGED <<textual, req, code, packageObject, dependencies, stringMap,
                 mipmapsJavaScript, englishTitle, htmlHeader, lookups, output,
                 calls>>

(***************************************************************************)
(* Line 100: the dependency manifest.                                      *)
(***************************************************************************)
\* what getDependencies( repo ) resolves to
Manifest(repo) == [kind |-> "dependencies", repo |-> repo]

\* getDependencies( repo ) is called; the build is suspended at the await
GetDependencies ==
  /\ pc = "dependencies"
  /\ calls' = Append(calls, Invocation("getDependencies", req.repo.value))
  /\ Goto("dependenciesPending")
  /\ UNCHANGED <<textual, req, code, shared, lookups, output>>

\* the promise settles: the manifest is assigned, or the rejection is thrown
GetDependenciesSettled ==
  /\ pc = "dependenciesPending"
  /\ \/ dependencies' = Manifest(req.repo.value) /\ Goto("strings")
     \/ UNCHANGED dependencies /\ Abort("getDependencies")
  /\ UNCHANGED <<textual, req, code, packageObject, allLocales, locales, stringMap,
                 mipmapsJavaScript, englishTitle, htmlHeader, lookups, output,
                 calls>>

(***************************************************************************)
(* Lines 101-103: version, third-party entries, the string table.          *)
(***************************************************************************)
Range(seq) == {seq[i] : i \in 1..Len(seq)}

\* what the string table can hold under the title key of the fallback locale
TitleEntries == {JSString("Sim Title"), JSString(""), JSUndefined}

\* getStringMap( allLocales, phetLibs ): per locale, the text under the title
\* key (the one key the build reads)
StringMap(all, title) ==
  [l \in Range(all) |->
     IF l = FALLBACK_LOCALE THEN title ELSE JSString("translated title")]

thirdPartyEntries == [kind |-> "thirdPartyEntries"]

\* getPhetLibs( repo, brand )
phetLibs == [kind |-> "phetLibs", repo |-> req.repo.value, brand |-> req.brand]

\* the arguments of getStringMap( allLocales, phetLibs )
StringMapArguments == [allLocales |-> allLocales, phetLibs |-> phetLibs]

ResolveStrings ==
  /\ pc = "strings"
  /\ calls' = calls \o <<Invocation("getAllThirdPartyEntries", req.repo.value),
                         Invocation("getStringMap", StringMapArguments)>>
  /\ \E title \in TitleEntries : stringMap' = StringMap(allLocales, title)
  /\ Goto("mipmaps")
  /\ UNCHANGED <<textual, req, code, packageObject, allLocales, locales, dependencies,
                 mipmapsJavaScript, englishTitle, htmlHeader, lookups, output>>

(***************************************************************************)
(* Line 104: the mipmap script.                                            *)
(***************************************************************************)
\* the arguments of a call that passes none
NoArguments == <<>>

\* buildMipmaps() is called; the build is suspended at the await
BuildMipmaps ==
  /\ pc = "mipmaps"
  /\ calls' = Append(calls, Invocation("buildMipmaps", NoArguments))
  /\ Goto("mipmapsPending")
  /\ UNCHANGED <<textual, req, code, shared, lookups, output>>

\* the promise settles: the script is assigned, or the rejection is thrown
BuildMipmapsSettled ==
  /\ pc = "mipmapsPending"
  /\ \/ mipmapsJavaScript' = [kind |-> "mipmaps"] /\ Goto("title")
     \/ UNCHANGED mipmapsJavaScript /\ Abort("buildMipmaps")
  /\ UNCHANGED <<textual, req, code, packageObject, allLocales, locales, dependencies,
                 stringMap, englishTitle, htmlHeader, lookups, output, calls>>

(***************************************************************************)
(* Lines 106-108: the title.                                               *)
(***************************************************************************)
\* faulty variant: only an absent entry is refused, an empty one passes
TitleValid_EmptyAccepted(title) == title # JSUndefined

\* assert( englishTitle, ... )
TitleValid(title) == Truthy(title)

ValidateTitle ==
  /\ pc = "title"
  /\ englishTitle' = stringMap[FALLBACK_LOCALE]
  /\ IF TitleValid(stringMap[FALLBACK_LOCALE])
       THEN Goto("header")
       ELSE Abort("title")
  /\ UNCHANGED <<textual, req, code, packageObject, allLocales, locales, dependencies,
                 stringMap, mipmapsJavaScript, htmlHeader, lookups, output,
                 calls>>

(***************************************************************************)
(* Lines 110-161: the header banner, the shared scripts, the build         *)
(* directory.                                                              *)
(***************************************************************************)
HtmlHeader(brand, title, version) ==
  [banner |-> IF brand = "phet-io" THEN "license required"
              ELSE "Creative Commons Attribution 4.0",
   title |-> title.value,
   version |-> version,
   year |-> "yyyy"]

chipperStringsScript == [kind |-> "chipper-strings"]

splashScript == [kind |-> "splash", brand |-> req.brand]

buildDir == <<"..", req.repo.value, "build", req.brand>>

Path(dir, name) == [dir |-> dir, name |-> name]

Write(path, content) == [path |-> path, content |-> content]

PrepareOutput ==
  /\ pc = "header"
  /\ htmlHeader' = HtmlHeader(req.brand, englishTitle, packageObject.version)
  /\ dirs' = Append(dirs, buildDir)
  /\ Goto("localeHtml")
  /\ UNCHANGED <<textual, req, code, packageObject, allLocales, locales, dependencies,
                 stringMap, mipmapsJavaScript, englishTitle, lookups, files,
                 xhtml, calls>>

(***************************************************************************)
(* getInitializationScript and packageRunnable: what each is given.        *)
(***************************************************************************)
\* getInitializationScript( _.extend( {...}, commonInitializationOptions ) )
InitializationScript(locale, includeAllLocales, isDebugBuild) ==
  [kind |-> "initialization",
   locale |-> locale,
   includeAllLocales |-> includeAllLocales,
   isDebugBuild |-> isDebugBuild,
   brand |-> req.brand,
   repo |-> req.repo.value,
   stringMap |-> stringMap,
   dependencies |-> dependencies,
   timestamp |-> timestamp,
   version |-> packageObject.version,
   thirdPartyEntries |-> thirdPartyEntries]

\* packageRunnable( { repo, stringMap, htmlHeader, locale, scripts } ): the
\* packaging step takes the ordered scripts, the header and the metadata to
\* the text of the document, for every locale it is given
PackageRunnable(locale, scripts) ==
  [kind |-> "html",
   repo |-> req.repo.value,
   stringMap |-> stringMap,
   htmlHeader |-> htmlHeader,
   locale |-> locale,
   scripts |-> scripts]

\* the scripts of the artifacts built from the production code
ProductionScripts(initializationScript) ==
  <<initializationScript, splashScript, mipmapsJavaScript>>
    \o productionPreloads \o <<chipperStringsScript, productionJS>>

\* faulty variant: the debug artifact carries the production code
DebugScripts_ProductionCode(initializationScript) ==
  <<initializationScript, splashScript, mipmapsJavaScript>>
    \o debugPreloads \o <<chipperStringsScript, productionJS>>

\* the scripts of the debug artifact
DebugScripts(initializationScript) ==
  <<initializationScript, splashScript, mipmapsJavaScript>>
    \o debugPreloads \o <<chipperStringsScript, debugJS>>

(***************************************************************************)
(* Lines 163-179: {repo}_{locale}_{brand}.html                             *)
(***************************************************************************)
LocaleHtmlName(locale) ==
  <<req.repo.value, "_", locale, "_", req.brand, ".html">>

LocaleHtml(locale) ==
  Write(Path(buildDir, LocaleHtmlName(locale)),
        PackageRunnable(locale,
                        ProductionScripts(
                          InitializationScript(locale, FALSE, FALSE))))

\* faulty variant: per-locale artifacts for every brand
EmitsLocaleHtml_EveryBrand(brand) == TRUE

EmitsLocaleHtml(brand) == brand # "phet-io"

WriteLocaleHtml ==
  /\ pc = "localeHtml"
  /\ files' = IF EmitsLocaleHtml(req.brand)
                THEN files \o [i \in 1..Len(locales) |-> LocaleHtml(locales[i])]
                ELSE files
  /\ Goto("allHtml")
  /\ UNCHANGED <<textual, req, code, shared, lookups, dirs, xhtml, calls>>

(***************************************************************************)
(* Lines 181-195: {repo}_all_{brand}.html                                  *)
(***************************************************************************)
AllHtmlName == <<req.repo.value, "_", "all", "_", req.brand, ".html">>

AllHtml ==
  Write(Path(buildDir, AllHtmlName),
        PackageRunnable(FALLBACK_LOCALE,
                        ProductionScripts(
                          InitializationScript(FALLBACK_LOCALE, TRUE, FALSE))))

\* faulty variant: the combined artifact is not forced for phet-io
EmitsAllHtml_OnRequestOnly(allHTML, brand) == allHTML

EmitsAllHtml(allHTML, brand) == allHTML \/ brand = "phet-io"

WriteAllHtml ==
  /\ pc = "allHtml"
  /\ files' = IF EmitsAllHtml(req.allHTML, req.brand)
                THEN Append(files, AllHtml)
                ELSE files
  /\ Goto("debugHtml")
  /\ UNCHANGED <<textual, req, code, shared, lookups, dirs, xhtml, calls>>

(***************************************************************************)
(* Lines 197-209: {repo}_all_{brand}_debug.html                            *)
(***************************************************************************)
DebugHtmlName == <<req.repo.value, "_", "all", "_", req.brand, "_debug.html">>

DebugHtml ==
  Write(Path(buildDir, DebugHtmlName),
        PackageRunnable(FALLBACK_LOCALE,
                        DebugScripts(
                          InitializationScript(FALLBACK_LOCALE, TRUE, TRUE))))

\* faulty variant: the debug artifact is written only with the combined one
WriteDebugHtml_WithCombinedOnly ==
  /\ pc = "debugHtml"
  /\ files' = IF EmitsAllHtml(req.allHTML, req.brand)
                THEN Append(files, DebugHtml)
                ELSE files
  /\ Goto("xhtml")
  /\ UNCHANGED <<textual, req, code, shared, lookups, dirs, xhtml, calls>>

WriteDebugHtml ==
  /\ pc = "debugHtml"
  /\ files' = Append(files, DebugHtml)
  /\ Goto("xhtml")
  /\ UNCHANGED <<textual, req, code, shared, lookups, dirs, xhtml, calls>>

(***************************************************************************)
(* Lines 211-225: the XHTML packaging.                                     *)
(***************************************************************************)
xhtmlDir == buildDir \o <<"xhtml">>

\* packageXHTML( xhtmlDir, { repo, brand, stringMap, htmlHeader, scripts } )
XhtmlPackage ==
  [dir |-> xhtmlDir,
   repo |-> req.repo.value,
   brand |-> req.brand,
   stringMap |-> stringMap,
   htmlHeader |-> htmlHeader,
   scripts |-> ProductionScripts(
                 InitializationScript(FALLBACK_LOCALE, TRUE, FALSE))]

PackageXhtml ==
  /\ pc = "xhtml"
  /\ dirs' = Append(dirs, xhtmlDir)
  /\ xhtml' = Append(xhtml, XhtmlPackage)
  /\ Goto("dependenciesJson")
  /\ UNCHANGED <<textual, req, code, shared, lookups, files, calls>>

(***************************************************************************)
(* Line 228: dependencies.json                                             *)
(***************************************************************************)
\* faulty variant: the file holds package.json instead of the manifest
DependenciesJson_PackageObject ==
  Write(Path(buildDir, <<"dependencies.json">>),
        [kind |-> "json", value |-> packageObject])

DependenciesJson ==
  Write(Path(buildDir, <<"dependencies.json">>),
        [kind |-> "json", value |-> dependencies])

WriteDependencies ==
  /\ pc = "dependenciesJson"
  /\ files' = Append(files, DependenciesJson)
  /\ Goto("iframe")
  /\ UNCHANGED <<textual, req, code, shared, lookups, dirs, xhtml, calls>>

(***************************************************************************)
(* Lines 230-244: the iframe test wrappers.                                *)
(***************************************************************************)
\* faulty variant: the wrappers are written for every brand
EmitsIframe_EveryBrand(resolved, brand) ==
  Includes(resolved, FALLBACK_LOCALE)

EmitsIframe(resolved, brand) ==
  Includes(resolved, FALLBACK_LOCALE) /\ brand = "phet"

IframeLocales(allHTML) == <<"en">> \o (IF allHTML THEN <<"all">> ELSE <<>>)

IframeHtml(locale) ==
  Write(Path(buildDir, <<req.repo.value, "_", locale, "_iframe_phet.html">>),
        [kind |-> "iframe",
         title |-> stringMap[FALLBACK_LOCALE].value,
         repo |-> req.repo.value,
         locale |-> locale])

WriteIframe ==
  /\ pc = "iframe"
  /\ files' = IF EmitsIframe(locales, req.brand)
                THEN files \o
                     [i \in 1..Len(IframeLocales(req.allHTML)) |->
                        IframeHtml(IframeLocales(req.allHTML)[i])]
                ELSE files
  /\ Goto("a11y")
  /\ UNCHANGED <<textual, req, code, shared, lookups, dirs, xhtml, calls>>

(***************************************************************************)
(* Lines 246-255: the accessibility viewer.                                *)
(***************************************************************************)
EmitsA11yView(package, brand) == package.accessible /\ brand = "phet"

A11yViewHtml ==
  Write(Path(buildDir, <<req.repo.value, A11Y_VIEW_HTML_SUFFIX>>),
        [kind |-> "a11y-view", repo |-> req.repo.value, isBuilt |-> "true"])

WriteA11yView ==
  /\ pc = "a11y"
  /\ files' = IF EmitsA11yView(packageObject, req.brand)
                THEN Append(files, A11yViewHtml)
                ELSE files
  /\ Goto("supplemental")
  /\ UNCHANGED <<textual, req, code, shared, lookups, dirs, xhtml, calls>>

(***************************************************************************)
(* Lines 257-259: the supplemental phet-io files.                          *)
(***************************************************************************)
\* for phet-io copySupplementalPhetioFiles( repo, version ) is called and
\* the build is suspended at the await; the other brands go straight on
CopySupplemental ==
  /\ pc = "supplemental"
  /\ \/ /\ req.brand # "phet-io"
        /\ UNCHANGED calls
        /\ Goto("screenshot")
     \/ /\ req.brand = "phet-io"
        /\ calls' = Append(calls, Invocation("copySupplementalPhetioFiles",
                                             req.repo.value))
        /\ Goto("supplementalPending")
  /\ UNCHANGED <<textual, req, code, shared, lookups, output>>

\* the promise settles: the build goes on, or the rejection is thrown
CopySupplementalSettled ==
  /\ pc = "supplementalPending"
  /\ \/ Goto("screenshot")
     \/ Abort("copySupplementalPhetioFiles")
  /\ UNCHANGED <<textual, req, code, shared, lookups, output, calls>>

(***************************************************************************)
(* Lines 261-274: thumbnails and the twitter card.                         *)
(***************************************************************************)
thumbnailSizes ==
  <<[width |-> "128", height |-> "84"], [width |-> "600", height |-> "394"]>>

\* faulty variant: a missing screenshot aborts the build
CheckScreenshot_AbsentFatal ==
  /\ pc = "screenshot"
  /\ \/ screenshot' = "present" /\ thumbnailIndex' = 1 /\ Goto("thumbnail")
     \/ screenshot' = "absent" /\ UNCHANGED thumbnailIndex
          /\ Abort("screenshot")
  /\ UNCHANGED <<textual, req, code, shared, phetioDir, output, calls>>

CheckScreenshot ==
  /\ pc = "screenshot"
  /\ \/ screenshot' = "present" /\ thumbnailIndex' = 1 /\ Goto("thumbnail")
     \/ screenshot' = "absent" /\ UNCHANGED thumbnailIndex /\ Goto("done")
  /\ UNCHANGED <<textual, req, code, shared, phetioDir, output, calls>>

ThumbnailPng(size) ==
  Write(Path(buildDir, <<req.repo.value, "-", size.width, ".png">>),
        [kind |-> "thumbnail", repo |-> req.repo.value,
         width |-> size.width, height |-> size.height])

\* generateThumbnails( repo, width, height ) is called; the build is
\* suspended at the await inside the argument list of grunt.file.write
Thumbnail ==
  /\ pc = "thumbnail"
  /\ calls' = Append(calls, Invocation("generateThumbnails",
                                       thumbnailSizes[thumbnailIndex].width))
  /\ Goto("thumbnailPending")
  /\ UNCHANGED <<textual, req, code, shared, lookups, output>>

\* faulty variant: a failed thumbnail is skipped and the build goes on
ThumbnailSettled_FailureSkipped ==
  /\ pc = "thumbnailPending"
  /\ \/ files' = Append(files, ThumbnailPng(thumbnailSizes[thumbnailIndex]))
     \/ UNCHANGED files
  /\ IF thumbnailIndex < Len(thumbnailSizes)
       THEN thumbnailIndex' = thumbnailIndex + 1 /\ Goto("thumbnail")
       ELSE UNCHANGED thumbnailIndex /\ Goto("twitterCard")
  /\ UNCHANGED <<textual, req, code, shared, phetioDir, screenshot, dirs, xhtml,
                 calls>>

\* the promise settles: the image is written and the loop goes on, or the
\* rejection is thrown
ThumbnailSettled ==
  /\ pc = "thumbnailPending"
  /\ \/ /\ files' = Append(files, ThumbnailPng(thumbnailSizes[thumbnailIndex]))
        /\ IF thumbnailIndex < Len(thumbnailSizes)
             THEN thumbnailIndex' = thumbnailIndex + 1 /\ Goto("thumbnail")
             ELSE UNCHANGED thumbnailIndex /\ Goto("twitterCard")
     \/ UNCHANGED <<files, thumbnailIndex>> /\ Abort("generateThumbnails")
  /\ UNCHANGED <<textual, req, code, shared, phetioDir, screenshot, dirs, xhtml,
                 calls>>

TwitterCardPng ==
  Write(Path(buildDir, <<req.repo.value, "-twitter-card.png">>),
        [kind |-> "twitter-card", repo |-> req.repo.value])

\* faulty variant: the twitter card is generated for every brand
TwitterCard_EveryBrand ==
  /\ pc = "twitterCard"
  /\ calls' = Append(calls, Invocation("generateTwitterCard", req.repo.value))
  /\ Goto("twitterCardPending")
  /\ UNCHANGED <<textual, req, code, shared, lookups, output>>

\* for phet generateTwitterCard( repo ) is called and the build is suspended
\* at the await inside the argument list of grunt.file.write; the other
\* brands are done
TwitterCard ==
  /\ pc = "twitterCard"
  /\ \/ /\ req.brand # "phet"
        /\ UNCHANGED calls
        /\ Goto("done")
     \/ /\ req.brand = "phet"
        /\ calls' = Append(calls, Invocation("generateTwitterCard",
                                             req.repo.value))
        /\ Goto("twitterCardPending")
  /\ UNCHANGED <<textual, req, code, shared, lookups, output>>

\* the promise settles: the card is written, or the rejection is thrown
TwitterCardSettled ==
  /\ pc = "twitterCardPending"
  /\ \/ files' = Append(files, TwitterCardPng) /\ Goto("done")
     \/ UNCHANGED files /\ Abort("generateTwitterCard")
  /\ UNCHANGED <<textual, req, code, shared, lookups, dirs, xhtml, calls>>

(***************************************************************************)
(* The build.                                                              *)
(***************************************************************************)
Next ==
  \/ CheckPreconditions
  \/ ReadPackage
  \/ RequireBuild
  \/ RequireBuildSettled
  \/ DeriveCode
  \/ DerivePreloads
  \/ ResolveLocales
  \/ GetDependencies
  \/ GetDependenciesSettled
  \/ ResolveStrings
  \/ BuildMipmaps
  \/ BuildMipmapsSettled
  \/ ValidateTitle
  \/ PrepareOutput
  \/ WriteLocaleHtml
  \/ WriteAllHtml
  \/ WriteDebugHtml
  \/ PackageXhtml
  \/ WriteDependencies
  \/ WriteIframe
  \/ WriteA11yView
  \/ CopySupplemental
  \/ CopySupplementalSettled
  \/ CheckScreenshot
  \/ Thumbnail
  \/ ThumbnailSettled
  \/ TwitterCard
  \/ TwitterCardSettled

Spec == Init /\ [][Next]_vars

(***************************************************************************)
(* One call of minify, followed by character.                              *)
(***************************************************************************)
build == <<req, control, code, shared, lookups, output, calls>>

MinifyInit ==
  /\ req = Unset
  /\ Fresh
  /\ minifyOptions \in MinifyOptionSets
  /\ uglifyConfig = Unset
  /\ result = Unset
  /\ returned = Unset

\* lines 36-69: the configuration is built and uglify.minify is called
Uglify ==
  /\ minifyOptions # Unset
  /\ result = Unset
  /\ uglifyConfig' = MinifyConfig(minifyOptions)
  /\ result' \in UglifyResults
  /\ UNCHANGED <<build, minifyOptions, returned>>

\* lines 71-79: an error is thrown on; code is returned after the replacement
MinifyReturn ==
  /\ result # Unset
  /\ returned = Unset
  /\ returned' = IF result.error # NoError THEN Thrown(NewError(result.error))
                 ELSE [kind |-> "text",
                       code |-> ReplaceFirst(result.code, VT, EscapedVT)]
  /\ UNCHANGED <<build, minifyOptions, uglifyConfig, result>>

MinifyNext ==
  \/ Uglify
  \/ MinifyReturn

SpecMinify == MinifyInit /\ [][MinifyNext]_vars

(***************************************************************************)
(* What the claims speak of.                                               *)
(***************************************************************************)
Completed == pc = "done"

NothingWritten == files = <<>> /\ dirs = <<>> /\ xhtml = <<>>

Invoked(fn) == \E i \in 1..Len(calls) : calls[i].fn = fn

\* a packaged HTML document among the files written
IsHtml(w) == w.content.kind = "html"

\* its initialization data
InitOf(w) == w.content.scripts[1]

\* the per-locale artifacts: one fixed locale baked in
IsLocaleArtifact(w) == IsHtml(w) /\ ~InitOf(w).includeAllLocales

\* the combined artifact: all locales, no debug features
IsCombinedArtifact(w) ==
  IsHtml(w) /\ InitOf(w).includeAllLocales /\ ~InitOf(w).isDebugBuild

\* the debug artifact: all locales, debug features retained
IsDebugArtifact(w) ==
  IsHtml(w) /\ InitOf(w).includeAllLocales /\ InitOf(w).isDebugBuild

FileName(repo, middle, brand, suffix) == <<repo, "_", middle, "_", brand, suffix>>

\* C1: a build that runs to completion has written
\* {repo}_all_{brand}_debug.html, whatever the flags, the brand and the
\* locale selector.
C1_DebugArtifactAlwaysWritten ==
  Completed =>
    \E i \in 1..Len(files) :
      /\ files[i].path.dir = <<"..", req.repo.value, "build", req.brand>>
      /\ files[i].path.name =
           FileName(req.repo.value, "all", req.brand, "_debug.html")
      /\ IsDebugArtifact(files[i])

\* a completed build with compress and allHTML both false that wrote the
\* debug artifact
C1_Witness ==
  /\ Completed
  /\ ~Truthy(req.uglify)
  /\ ~req.allHTML
  /\ req.brand = "phet"
  /\ \E i \in 1..Len(files) :
       files[i].path.name =
         FileName(req.repo.value, "all", req.brand, "_debug.html")

\* the request breaks one of the checked parameter conditions
RequestMalformed ==
  \/ TypeOf(req.repo) # "string"
  \/ TypeOf(req.uglify) # "boolean"
  \/ TypeOf(req.mangle) # "boolean"
  \/ ~Includes(BRANDS, req.brand)

\* C2: when a precondition fails (a parameter of the wrong type, an unknown
\* brand, or brand phet-io without ../phet-io) the build aborts with nothing
\* written, no directory created, and neither the bundler nor the compressor
\* invoked.
C2_PreconditionFailureWritesNothing ==
  (RequestMalformed \/ (req.brand = "phet-io" /\ phetioDir = "absent")) =>
    /\ pc = "start" \/ (pc = "failed" /\ error = "precondition")
    /\ NothingWritten
    /\ ~Invoked("requireBuild")
    /\ ~Invoked("minify")

\* the restricted brand, aborted for want of ../phet-io
C2_Witness ==
  /\ pc = "failed"
  /\ error = "precondition"
  /\ req.brand = "phet-io"
  /\ phetioDir = "absent"
  /\ ~RequestMalformed

\* the string table is resolved and has no usable title for the fallback locale
TitleMissing ==
  /\ stringMap # Unset
  /\ stringMap["en"] \in {JSUndefined, JSString("")}

\* C3: with no entry, or an empty one, under the title key of the fallback
\* locale, the build aborts before any file is written or directory created.
C3_MissingTitleAbortsBeforeWrites ==
  TitleMissing =>
    /\ \/ pc \in {"mipmaps", "mipmapsPending", "title"}
       \/ pc = "failed" /\ error \in {"buildMipmaps", "title"}
    /\ NothingWritten

\* a build aborted by the title check on an empty title
C3_Witness ==
  /\ pc = "failed"
  /\ error = "title"
  /\ stringMap["en"] = JSString("")
  /\ NothingWritten

\* C4 as stated: a request whose target identifier is the empty string never
\* reaches the module bundler.
C4_EmptyRepoRejected ==
  \A i \in 1..Len(calls) :
    calls[i].fn = "requireBuild" => calls[i].arg # ""

\* C4 as amended: the target identifier must be a string.  A request whose
\* target is not a string is rejected by the parameter checks with the
\* bundler never invoked; the empty string passes those checks.
C4_NonStringRepoRejected ==
  /\ TypeOf(req.repo) # "string" =>
       /\ pc = "start" \/ (pc = "failed" /\ error = "precondition")
       /\ calls = <<>>
  /\ (req.repo = JSString("") /\ ~RequestMalformed /\ phetioDir # "absent"
        /\ pc # "start") =>
       error # "precondition"

\* the bundler invoked for the empty target identifier
C4_Witness ==
  /\ req.repo = JSString("")
  /\ \E i \in 1..Len(calls) :
       calls[i].fn = "requireBuild" /\ calls[i].arg = ""

\* the per-locale artifacts written, in the order written
LocaleArtifacts == SelectSeq(files, IsLocaleArtifact)

\* C5: a completed build of a brand other than phet-io has written one
\* per-locale artifact {repo}_{locale}_{brand}.html for each resolved locale,
\* each with non-debug initialization data for that locale; a completed build
\* of phet-io has written none.
C5_LocaleArtifacts ==
  Completed =>
    IF req.brand = "phet-io"
      THEN LocaleArtifacts = <<>>
      ELSE /\ Len(LocaleArtifacts) = Len(locales)
           /\ \A i \in 1..Len(locales) :
                LET w == LocaleArtifacts[i]
                IN /\ w.path.name =
                        FileName(req.repo.value, locales[i], req.brand, ".html")
                   /\ w.content.locale = locales[i]
                   /\ InitOf(w).locale = locales[i]
                   /\ ~InitOf(w).includeAllLocales
                   /\ ~InitOf(w).isDebugBuild

\* a completed build of brand phet for the explicit selector "en,es"
C5_Witness ==
  /\ Completed
  /\ req.brand = "phet"
  /\ req.localesOption = <<"en", ",", "es">>
  /\ Len(LocaleArtifacts) = 2

\* C6: a completed build has written the combined artifact
\* {repo}_all_{brand}.html exactly when allHTML is set or the brand is phet-io.
C6_CombinedArtifact ==
  Completed =>
    ((\E i \in 1..Len(files) :
        /\ IsCombinedArtifact(files[i])
        /\ files[i].path.name =
             FileName(req.repo.value, "all", req.brand, ".html"))
     <=> (req.allHTML \/ req.brand = "phet-io"))

\* a completed phet-io build that was not asked for the combined artifact and
\* wrote it
C6_Witness ==
  /\ Completed
  /\ ~req.allHTML
  /\ req.brand = "phet-io"
  /\ \E i \in 1..Len(files) : IsCombinedArtifact(files[i])

\* the script lists handed to the packaging steps so far
ComposedScripts ==
  {files[i].content.scripts : i \in {j \in 1..Len(files) : IsHtml(files[j])}}
    \cup {xhtml[i].scripts : i \in 1..Len(xhtml)}

\* C7: every composed artifact gets initialization script, splash script,
\* mipmap script, the preloads, the string-accessor script, the main code, in
\* that order, the main code last and nowhere earlier; the debug artifact
\* gets the debug preloads and the debug code, every other artifact the
\* production preloads and the production code.
C7_ScriptOrder ==
  \A s \in ComposedScripts :
    LET n == Len(s)
        debug == s[1].isDebugBuild
    IN /\ n = NumPreloads + 5
       /\ s[1].kind = "initialization"
       /\ s[2].kind = "splash"
       /\ s[3].kind = "mipmaps"
       /\ SubSeq(s, 4, n - 2) =
            (IF debug THEN debugPreloads ELSE productionPreloads)
       /\ s[n - 1].kind = "chipper-strings"
       /\ s[n] = (IF debug THEN debugJS ELSE productionJS)
       /\ \A i \in 1..(n - 1) : s[i] # s[n]

\* a completed build whose two flavors differ, all four kinds of artifact
\* composed
C7_Witness ==
  /\ Completed
  /\ productionJS # debugJS
  /\ productionPreloads # debugPreloads
  /\ xhtml # <<>>
  /\ \E i, j \in 1..Len(files) :
       IsDebugArtifact(files[i]) /\ IsCombinedArtifact(files[j])

\* C8: with compression disabled the production code is the raw module bundle,
\* not a compressor output, for every brand and mangle flag, and it is what
\* the non-debug artifacts carry as main code.
C8_ProductionIsRawBundle ==
  (TypeOf(req.uglify) = "boolean" /\ ~Truthy(req.uglify)
     /\ productionJS # Unset) =>
    /\ productionJS = requireJS
    /\ productionJS.kind = "bundle"
    /\ req.brand # "phet-io" => ~Invoked("minify")
    /\ \A i \in 1..Len(files) :
         (IsHtml(files[i]) /\ ~InitOf(files[i]).isDebugBuild) =>
           files[i].content.scripts[Len(files[i].content.scripts)] = requireJS

\* a completed uncompressed build with mangle set, of the brand whose debug
\* code is compressed
C8_Witness ==
  /\ Completed
  /\ ~Truthy(req.uglify)
  /\ Truthy(req.mangle)
  /\ req.brand = "phet-io"
  /\ \E i \in 1..Len(files) : IsCombinedArtifact(files[i])

\* C9: the debug code is the compressor's output for the (transpiled) raw
\* bundle, mangled, with no global bound to false, exactly when the brand is
\* phet-io; for every other brand it is the raw bundle.  Neither depends on
\* the compress and mangle flags.
C9_DebugCode ==
  debugJS # Unset =>
    IF req.brand = "phet-io"
      THEN /\ debugJS.kind = "minified"
           /\ debugJS.src = transpile(requireJS)
           /\ debugJS.config.mangle
           /\ DOMAIN debugJS.config.global_defs = {}
      ELSE debugJS = requireJS /\ debugJS.kind = "bundle"

\* a phet-io build with compress and mangle both false whose debug code is
\* compressed
C9_Witness ==
  /\ req.brand = "phet-io"
  /\ ~Truthy(req.uglify)
  /\ ~Truthy(req.mangle)
  /\ debugJS # Unset
  /\ debugJS.kind = "minified"

\* C10: for phet-io every debug preload is the compressor's output with
\* mangling and with no global bound to false; for every other brand the
\* debug preloads are the raw preload files.
C10_DebugPreloadsUnstripped ==
  Len(debugPreloads) = NumPreloads =>
    IF req.brand = "phet-io"
      THEN \A i \in 1..NumPreloads :
             /\ debugPreloads[i].kind = "minified"
             /\ debugPreloads[i].src = rawPreloads[i]
             /\ debugPreloads[i].config.mangle
             /\ DOMAIN debugPreloads[i].config.global_defs = {}
      ELSE debugPreloads = rawPreloads

\* C11: a compressor error on any input (the bundle for either flavor, any
\* preload) makes minify throw an error whose message is the text of the
\* error the compressor reported, rather than return the uncompressed input,
\* and that error aborts the whole build with no file written: every blob
\* that was sent through the compressor and is in use is compressor output.
C11_CompressorFailureAbortsBuild ==
  /\ error = "minify" <=> compressorError # NoError
  /\ error = "minify" =>
       /\ pc = "failed"
       /\ NothingWritten
       /\ thrown.kind = "Error"
       /\ thrown.message =
            <<compressorError.name, ": ", compressorError.message>>
  /\ (TypeOf(req.uglify) = "boolean" /\ Truthy(req.uglify)) =>
       /\ productionJS # Unset => productionJS.kind = "minified"
       /\ \A i \in 1..Len(productionPreloads) :
            productionPreloads[i].kind = "minified"
  /\ req.brand = "phet-io" =>
       /\ debugJS # Unset => debugJS.kind = "minified"
       /\ \A i \in 1..Len(debugPreloads) : debugPreloads[i].kind = "minified"
  /\ (pc \notin {"start", "readPackage", "requireBuild",
                 "requireBuildPending", "minify", "preloads", "failed"}
        /\ ((TypeOf(req.uglify) = "boolean" /\ Truthy(req.uglify))
              \/ req.brand = "phet-io")) =>
       Invoked("minify")

\* a build aborted by the compressor failing on a debug preload, after the
\* bundle and every production preload had been compressed
C11_Witness ==
  /\ pc = "failed"
  /\ error = "minify"
  /\ compressorError.name = "DefaultsError"
  /\ thrown.message = <<"DefaultsError", ": ", "not a supported option">>
  /\ Truthy(req.uglify)
  /\ productionJS.kind = "minified"
  /\ Len(productionPreloads) = NumPreloads
  /\ debugPreloads = <<>>
  /\ NothingWritten

\* the writes of dependencies.json, in order
DependencyFiles ==
  SelectSeq(files, LAMBDA w : w.path.name = <<"dependencies.json">>)

\* C12: in a completed build the manifest was resolved by one call of
\* getDependencies, dependencies.json was written exactly once, and its
\* content is the manifest that the initialization data of every HTML
\* artifact and of the XHTML packaging carries.
C12_OneManifest ==
  Completed =>
    /\ Cardinality({i \in 1..Len(calls) : calls[i].fn = "getDependencies"}) = 1
    /\ dependencies.kind = "dependencies"
    /\ Len(DependencyFiles) = 1
    /\ DependencyFiles[1].content.kind = "json"
    /\ DependencyFiles[1].content.value = dependencies
    /\ DependencyFiles[1].path.dir = <<"..", req.repo.value, "build", req.brand>>
    /\ \A i \in 1..Len(files) :
         IsHtml(files[i]) =>
           InitOf(files[i]).dependencies = DependencyFiles[1].content.value
    /\ \A i \in 1..Len(xhtml) :
         xhtml[i].scripts[1].dependencies = DependencyFiles[1].content.value

\* a completed build that wrote per-locale, combined and debug artifacts, the
\* XHTML packaging and dependencies.json
C12_Witness ==
  /\ Completed
  /\ Len(DependencyFiles) = 1
  /\ Len(LocaleArtifacts) >= 2
  /\ xhtml # <<>>
  /\ \E i, j \in 1..Len(files) :
       IsCombinedArtifact(files[i]) /\ IsDebugArtifact(files[j])

\* C13 as stated: once copySupplementalPhetioFiles has been invoked the build
\* writes no further file.
C13_NoWriteAfterCopy ==
  \A i \in 1..Len(calls) :
    calls[i].fn = "copySupplementalPhetioFiles" => calls[i].at = Len(files)

\* C13 as amended: copySupplementalPhetioFiles is invoked, for phet-io only,
\* after the combined artifact, the debug artifact, the XHTML packaging and
\* dependencies.json have been written; the only files written after it are
\* thumbnails.
C13_CopyAfterHtmlArtifacts ==
  \A i \in 1..Len(calls) :
    calls[i].fn = "copySupplementalPhetioFiles" =>
      /\ req.brand = "phet-io"
      /\ xhtml # <<>>
      /\ \E j, k, l \in 1..calls[i].at :
           /\ IsCombinedArtifact(files[j])
           /\ IsDebugArtifact(files[k])
           /\ files[l].path.name = <<"dependencies.json">>
      /\ \A j \in (calls[i].at + 1)..Len(files) :
           files[j].content.kind = "thumbnail"

\* a completed phet-io build that wrote both thumbnails after the copy step
C13_Witness ==
  /\ Completed
  /\ screenshot = "present"
  /\ \E i \in 1..Len(calls) :
       /\ calls[i].fn = "copySupplementalPhetioFiles"
       /\ Len(files) = calls[i].at + 2

IsImage(w) == w.content.kind \in {"thumbnail", "twitter-card"}

\* the files written other than the thumbnails and the social card
OtherFiles == SelectSeq(files, LAMBDA w : ~IsImage(w))

CountOf(kind) ==
  Cardinality({i \in 1..Len(files) : files[i].content.kind = kind})

\* every artifact the request calls for, apart from the images, is written,
\* and nothing else
OtherArtifactsAsCalledFor ==
  /\ xhtml # <<>>
  /\ Len(LocaleArtifacts) =
       (IF req.brand = "phet-io" THEN 0 ELSE Len(locales))
  /\ Cardinality({i \in 1..Len(files) : IsCombinedArtifact(files[i])}) =
       (IF req.allHTML \/ req.brand = "phet-io" THEN 1 ELSE 0)
  /\ Cardinality({i \in 1..Len(files) : IsDebugArtifact(files[i])}) = 1
  /\ CountOf("json") = 1
  /\ CountOf("iframe") =
       (IF req.brand = "phet" /\ "en" \in Range(locales)
          THEN (IF req.allHTML THEN 2 ELSE 1)
          ELSE 0)
  /\ CountOf("a11y-view") =
       (IF packageObject.accessible /\ req.brand = "phet" THEN 1 ELSE 0)
  /\ Len(OtherFiles) =
       CountOf("html") + CountOf("json") + CountOf("iframe")
         + CountOf("a11y-view")

\* C14: when the screenshot asset does not exist the build completes without
\* error, writes no thumbnail and no social card and invokes neither
\* generator; the other artifacts are the ones the request calls for, whether
\* the screenshot exists or not.
C14_MissingScreenshotSkipsImagesOnly ==
  /\ screenshot = "absent" =>
       /\ Completed
       /\ error = "none"
       /\ files = OtherFiles
       /\ ~Invoked("generateThumbnails")
       /\ ~Invoked("generateTwitterCard")
  /\ screenshot # "unknown" => OtherArtifactsAsCalledFor

\* a completed build of brand phet without a screenshot that wrote per-locale,
\* combined, iframe and accessibility artifacts
C14_Witness ==
  /\ Completed
  /\ screenshot = "absent"
  /\ req.brand = "phet"
  /\ req.allHTML
  /\ packageObject.accessible
  /\ CountOf("iframe") = 2
  /\ CountOf("a11y-view") = 1

\* the iframe test wrappers written, in order
IframeFiles == SelectSeq(files, LAMBDA w : w.content.kind = "iframe")

IframeName(repo, locale) == <<repo, "_", locale, "_iframe_phet.html">>

\* C15: a completed build has written iframe wrappers only if the brand is
\* phet and the fallback locale is among the resolved locales: then the
\* wrapper for en, followed by the wrapper for the locale "all" exactly when
\* allHTML is set; otherwise none.
C15_IframeWrappers ==
  Completed =>
    LET expected ==
          IF req.brand = "phet" /\ (\E i \in 1..Len(locales) : locales[i] = "en")
            THEN (IF req.allHTML THEN <<"en", "all">> ELSE <<"en">>)
            ELSE <<>>
    IN /\ Len(IframeFiles) = Len(expected)
       /\ \A i \in 1..Len(expected) :
            /\ IframeFiles[i].path.name = IframeName(req.repo.value, expected[i])
            /\ IframeFiles[i].path.dir =
                 <<"..", req.repo.value, "build", req.brand>>
            /\ IframeFiles[i].content.locale = expected[i]

\* a completed build of brand phet with allHTML, for a selector that names the
\* fallback locale second, that wrote both wrappers
C15_Witness ==
  /\ Completed
  /\ req.brand = "phet"
  /\ req.allHTML
  /\ req.localesOption = <<"es", ",", "en">>
  /\ Len(IframeFiles) = 2

\* C16: the stages are strictly sequential: no compressor call happens before
\* the dependency manifest, the string table and the mipmap script are
\* available.
C16_CompressorAfterSharedInputs ==
  Invoked("minify") =>
    /\ dependencies # Unset
    /\ stringMap # Unset
    /\ mipmapsJavaScript # Unset

\* the failures of the awaited collaborators, before and after the first write
EarlyAwaitErrors == {"requireBuild", "getDependencies", "buildMipmaps"}
LateAwaitErrors ==
  {"copySupplementalPhetioFiles", "generateThumbnails", "generateTwitterCard"}

\* C17: a failure of an awaited collaborator ends the build at once: the
\* failed call is the last thing the build did, it was made once, nothing was
\* invoked or written after it, and what was written before it is still
\* there; a build completes only if every awaited call it made succeeded.
C17_AwaitFailurePropagates ==
  /\ (pc = "failed") <=> (error # "none")
  /\ error \in EarlyAwaitErrors \cup LateAwaitErrors =>
       LET last == calls[Len(calls)]
       IN /\ pc = "failed"
          /\ last.fn = error
          /\ last.at = Len(files)
          /\ Cardinality({i \in 1..Len(calls) :
                            calls[i].fn = last.fn /\ calls[i].arg = last.arg}) = 1
          /\ error \in EarlyAwaitErrors => NothingWritten
          /\ error \in LateAwaitErrors =>
               /\ dirs # <<>>
               /\ xhtml # <<>>
               /\ \E i, j \in 1..Len(files) :
                    /\ IsDebugArtifact(files[i])
                    /\ files[j].path.name = <<"dependencies.json">>
          /\ error = "generateTwitterCard" => CountOf("thumbnail") = 2
  /\ (Completed /\ screenshot = "present") =>
       /\ CountOf("thumbnail") = 2
       /\ CountOf("twitter-card") = (IF req.brand = "phet" THEN 1 ELSE 0)

\* a build aborted by the second thumbnail failing, the first thumbnail and
\* the artifacts before it in place
C17_Witness ==
  /\ pc = "failed"
  /\ error = "generateThumbnails"
  /\ thumbnailIndex = 2
  /\ CountOf("thumbnail") = 1
  /\ \E i \in 1..Len(files) : IsDebugArtifact(files[i])

\* C18: within one build no output path is written more than once, whatever
\* the locale selector, the flags and the brand.
C18_DistinctOutputPaths ==
  \A i, j \in 1..Len(files) :
    i # j => files[i].path # files[j].path

\* C19: the code minify returns holds no raw vertical tab, whatever the
\* compressor produced: every U+000B is in its escaped form.
C19_NoRawVerticalTab ==
  returned.kind = "text" =>
    \A i \in 1..Len(returned.code) : returned.code[i] # VT

\* C20: every per-locale artifact {repo}_{locale}_{brand}.html written is for
\* a locale that has an entry in the build's string table, for every locale
\* selector.
C20_LocaleArtifactsInStringTable ==
  \A i \in 1..Len(files) :
    IsLocaleArtifact(files[i]) =>
      \E l \in DOMAIN stringMap :
        files[i].path.name = FileName(req.repo.value, l, req.brand, ".html")

====
